---- MODULE Spec2Model ----
(***************************************************************************)
(* Model of the shop assistant bot (src/bot.py, src/config.py): the FAQ    *)
(* resolver, the AI fallback generator, the per-user lead flow and the     *)
(* message router.                                                         *)
(*                                                                         *)
(* Texts are sequences of characters.  A character is written as a short   *)
(* ASCII name of the Cyrillic letter it stands for ("zh", "ya", "soft",    *)
(* "ii" for the Ukrainian dotted i, "yi" for the Russian yery); upper-case *)
(* letters carry an upper-case name ("M").  " ", "|", "(" and "?" stand    *)
(* for themselves.                                                         *)
(***************************************************************************)
EXTENDS Integers, Sequences, FiniteSets, TLC

VARIABLES
    DATA,           \* the knowledge base loaded from faq.yaml (bot.py:24-25)
    BOT_LANG,       \* config.py:9
    openai_client,  \* TRUE: a client object, FALSE: None (bot.py:11-15)
    LEAD_STATE,     \* user id -> [step, answers] (bot.py:95)
    leads_csv,      \* the file LEADS_CSV: [exists, rows] (bot.py:22, 86-92)
    last,           \* what the latest handler or probed function did
    run,            \* per user: the texts handled since the latest lead start
    started,        \* lead sessions started so far
    tasks           \* the handler coroutines in flight (SpecTasks)

vars == <<DATA, BOT_LANG, openai_client, LEAD_STATE, leads_csv, last, run, started,
          tasks>>

-----------------------------------------------------------------------------
(* Bounds of the model.                                                    *)

MaxFaq == 2        \* entries of a knowledge base drawn for the resolver
MaxLeads == 2      \* lead sessions started in one behaviour
MaxTasks == 3      \* handler coroutines created in one behaviour

-----------------------------------------------------------------------------
(* Characters and strings.                                                 *)

Max(a, b) == IF a >= b THEN a ELSE b

\* Code point order of the characters used (space, punctuation, upper-case
\* Cyrillic, lower-case Cyrillic, then the Ukrainian letter U+0456).
Alphabet ==
    << " ", "(", "?", "|", "Z", "K", "M",
       "a", "b", "v", "g", "d", "e", "zh", "z", "i", "j", "k", "l", "m", "n",
       "o", "p", "r", "s", "t", "u", "ts", "ch", "sh", "yi", "soft", "yu",
       "ya", "ii" >>

Rank(c) == CHOOSE k \in 1..Len(Alphabet) : Alphabet[k] = c

\* str.lower() on one character
LowerChar(c) ==
    CASE c = "Z" -> "z"
      [] c = "K" -> "k"
      [] c = "M" -> "m"
      [] OTHER -> c

\* str.lower()
Lower(s) == [k \in 1..Len(s) |-> LowerChar(s[k])]

\* str.strip(): leading and trailing white space removed
RECURSIVE LStrip(_)
LStrip(s) == IF s # <<>> /\ Head(s) = " " THEN LStrip(Tail(s)) ELSE s

RECURSIVE RStrip(_)
RStrip(s) ==
    IF s # <<>> /\ s[Len(s)] = " " THEN RStrip(SubSeq(s, 1, Len(s) - 1)) ELSE s

Strip(s) == RStrip(LStrip(s))

\* `p in s` for strings: p occurs in s as a contiguous substring
Contains(s, p) ==
    \E k \in 0..(Len(s) - Len(p)) : SubSeq(s, k + 1, k + Len(p)) = p

\* str.split(sep) for a one-character separator: always at least one piece
RECURSIVE SplitAcc(_, _, _, _)
SplitAcc(s, sep, cur, acc) ==
    IF s = <<>> THEN Append(acc, cur)
    ELSE IF Head(s) = sep THEN SplitAcc(Tail(s), sep, <<>>, Append(acc, cur))
    ELSE SplitAcc(Tail(s), sep, Append(cur, Head(s)), acc)

Split(s, sep) == SplitAcc(s, sep, <<>>, <<>>)

\* set(s.split()): the set of white-space separated tokens, empty ones dropped
Tokens(s) == {t \in {Split(s, " ")[k] : k \in 1..Len(Split(s, " "))} : t # <<>>}

\* string order of Python (by code point, a proper prefix first)
RECURSIVE StrLess(_, _)
StrLess(a, b) ==
    IF b = <<>> THEN FALSE
    ELSE IF a = <<>> THEN TRUE
    ELSE IF Head(a) = Head(b) THEN StrLess(Tail(a), Tail(b))
    ELSE Rank(Head(a)) < Rank(Head(b))

\* " ".join(sorted(S))
RECURSIVE JoinSorted(_)
JoinSorted(S) ==
    IF S = {} THEN <<>>
    ELSE LET m == CHOOSE x \in S : \A y \in S \ {x} : StrLess(x, y)
             rest == JoinSorted(S \ {m})
         IN  IF rest = <<>> THEN m ELSE m \o <<" ">> \o rest

\* the words of the knowledge bases and utterances drawn below
W(a, b) == a \o <<" ">> \o b

w_menyu == <<"m", "e", "n", "yu">>
w_Menyu == <<"M", "e", "n", "yu">>
w_dostavka == <<"d", "o", "s", "t", "a", "v", "k", "a">>
w_dostavky == <<"d", "o", "s", "t", "a", "v", "k", "i">>
w_tsina == <<"ts", "ii", "n", "a">>
w_tsena == <<"ts", "e", "n", "a">>
w_yaka == <<"ya", "k", "a">>
w_vartist == <<"v", "a", "r", "t", "ii", "s", "t", "soft">>
w_oplata == <<"o", "p", "l", "a", "t", "a">>
w_privet == <<"p", "r", "i", "v", "e", "t">>
w_zalyshyty == <<"z", "a", "l", "i", "sh", "i", "t", "i">>
w_Zalyshyty == <<"Z", "a", "l", "i", "sh", "i", "t", "i">>
w_ostavit == <<"o", "s", "t", "a", "v", "i", "t", "soft">>
w_zayavku == <<"z", "a", "ya", "v", "k", "u">>
w_kontakty_uk == <<"k", "o", "n", "t", "a", "k", "t", "i">>
w_kontakty_ru == <<"k", "o", "n", "t", "a", "k", "t", "yi">>
w_Kontakty_uk == <<"K", "o", "n", "t", "a", "k", "t", "i">>
w_hodyny == <<"g", "o", "d", "i", "n", "i">>
w_roboty == <<"r", "o", "b", "o", "t", "i">>
w_chasy == <<"ch", "a", "s", "yi">>
w_raboty == <<"r", "a", "b", "o", "t", "yi">>


-----------------------------------------------------------------------------
(* detect_lang and build_keyboard.                                         *)

ru_markers ==
    << w_privet,
       <<"z", "d", "r", "a", "v", "s", "t", "v", "u", "j", "t", "e">>,
       <<"s", "k", "o", "l", "soft", "k", "o">>,
       w_tsena,
       w_dostavka,
       <<"a", "d", "r", "e", "s">>,
       w_menyu,
       w_oplata,
       <<"r", "e", "z", "e", "r", "v">> >>

uk_markers ==
    << <<"p", "r", "i", "v", "ii", "t">>,
       <<"s", "k", "ii", "l", "soft", "k", "i">>,
       w_tsina,
       w_dostavka,
       <<"a", "d", "r", "e", "s", "a">>,
       w_menyu,
       w_oplata,
       <<"b", "r", "o", "n", "yu", "v", "a", "n", "n", "ya">>,
       <<"r", "e", "zh", "i", "m">> >>

\* sum(1 for w in markers if w in text.lower())
MarkerScore(markers, text) ==
    Cardinality({k \in 1..Len(markers) : Contains(Lower(text), markers[k])})

detect_lang(text) ==
    IF MarkerScore(ru_markers, text) > MarkerScore(uk_markers, text)
    THEN "ru" ELSE "uk"

\* The reply keyboard: rows of button labels.
build_keyboard(lang) ==
    IF lang = "ru"
    THEN << <<w_Menyu, w_dostavka>>, <<W(w_ostavit, w_zayavku)>>,
            <<w_kontakty_ru, W(w_chasy, w_raboty)>> >>
    ELSE << <<w_Menyu, w_dostavka>>, <<W(w_zalyshyty, w_zayavku)>>,
            <<w_kontakty_uk, W(w_hodyny, w_roboty)>> >>

-----------------------------------------------------------------------------
(* Results of a call: a value, None, or a raised exception.                *)

Ok(v) == [tag |-> "ok", val |-> v, exc |-> ""]
None == [tag |-> "none", val |-> <<>>, exc |-> ""]
Raise(e) == [tag |-> "raise", val |-> <<>>, exc |-> e]

-----------------------------------------------------------------------------
(* re.search(p, text, re.IGNORECASE) for the patterns drawn here: letters  *)
(* and spaces match themselves, and "(" opens a group that nothing closes, *)
(* which re refuses to compile (re.error).                                 *)

Compiles(p) == \A k \in 1..Len(p) : p[k] # "("

re_search(p, text) ==
    IF ~Compiles(p) THEN Raise("re.error")
    ELSE IF Contains(Lower(text), Lower(p)) THEN Ok(p)
    ELSE None

-----------------------------------------------------------------------------
(* rapidfuzz: fuzz.token_set_ratio and process.extractOne.  A score is a   *)
(* fraction <<n, d>> standing for n / d on the 0..100 scale.               *)

ScoreGeq(x, y) == x[1] * y[2] >= y[1] * x[2]
ScoreGt(x, y) == x[1] * y[2] > y[1] * x[2]
ScoreMax(x, y) == IF ScoreGeq(x, y) THEN x ELSE y

\* one row of the longest-common-subsequence table, column by column; acc
\* holds the columns 0..Len(acc)-1 of the row being built
RECURSIVE LcsRow(_, _, _, _)
LcsRow(prev, c, b, acc) ==
    LET j == Len(acc)
    IN  IF j > Len(b) THEN acc
        ELSE LcsRow(prev, c, b,
                    Append(acc, IF c = b[j] THEN prev[j] + 1
                                ELSE Max(prev[j + 1], acc[j])))

RECURSIVE LcsRows(_, _, _, _)
LcsRows(a, b, i, prev) ==
    IF i > Len(a) \/ Len(prev) = 0 THEN prev[Len(b) + 1]
    ELSE LcsRows(a, b, i + 1, LcsRow(prev, a[i], b, <<0>>))

Lcs(a, b) == LcsRows(a, b, 1, [k \in 1..(Len(b) + 1) |-> 0])

\* Indel distance: insertions and deletions only
Indel(a, b) == Len(a) + Len(b) - 2 * Lcs(a, b)

\* _norm_distance: 100 - 100 * dist / lensum
NormDistance(dist, lensum) ==
    IF lensum > 0 THEN <<100 * (lensum - dist), lensum>> ELSE <<100, 1>>

token_set_ratio(s1, s2) ==
    LET tokens_a == Tokens(s1)
        tokens_b == Tokens(s2)
        intersect == tokens_a \cap tokens_b
        diff_ab == JoinSorted(tokens_a \ tokens_b)
        diff_ba == JoinSorted(tokens_b \ tokens_a)
        sect_len == Len(JoinSorted(intersect))
        sep == IF sect_len # 0 THEN 1 ELSE 0
        sect_ab_len == sect_len + sep + Len(diff_ab)
        sect_ba_len == sect_len + sep + Len(diff_ba)
        result == NormDistance(Indel(diff_ab, diff_ba), sect_ab_len + sect_ba_len)
        sect_ab_ratio == NormDistance(sep + Len(diff_ab), sect_len + sect_ab_len)
        sect_ba_ratio == NormDistance(sep + Len(diff_ba), sect_len + sect_ba_len)
    IN  IF tokens_a = {} \/ tokens_b = {} THEN <<0, 1>>
        ELSE IF intersect # {} /\ (diff_ab = <<>> \/ diff_ba = <<>>) THEN <<100, 1>>
        ELSE IF sect_len = 0 THEN result
        ELSE ScoreMax(result, ScoreMax(sect_ab_ratio, sect_ba_ratio))

\* process.extractOne(query, choices, scorer=fuzz.token_set_ratio): the index
\* of the first choice with the highest score and that score; 0 for None
\* (no choices).
RECURSIVE ExtractFrom(_, _, _, _, _)
ExtractFrom(query, choices, k, bestIdx, bestScore) ==
    IF k > Len(choices) THEN [idx |-> bestIdx, score |-> bestScore]
    ELSE LET sc == token_set_ratio(query, choices[k])
         IN  IF bestIdx = 0 \/ ScoreGt(sc, bestScore)
             THEN ExtractFrom(query, choices, k + 1, k, sc)
             ELSE ExtractFrom(query, choices, k + 1, bestIdx, bestScore)

extractOne(query, choices) == ExtractFrom(query, choices, 1, 0, <<0, 1>>)

\* list.index(x): the first position holding x
IndexOf(list, x) == CHOOSE k \in 1..Len(list) :
                        list[k] = x /\ \A m \in 1..(k - 1) : list[m] # x

-----------------------------------------------------------------------------
(* faq_answer.                                                             *)

FaqThreshold == 78

\* The inner loop over the sub-patterns of one entry: Ok on the first match,
\* Raise when a sub-pattern does not compile, None when the loop ends.
RECURSIVE ScanPatterns(_, _, _)
ScanPatterns(patterns, k, user_text) ==
    IF k > Len(patterns) THEN None
    ELSE LET m == re_search(Strip(patterns[k]), user_text)
         IN  IF m.tag = "none" THEN ScanPatterns(patterns, k + 1, user_text)
             ELSE m

\* The outer loop over the entries, in knowledge-base order.
RECURSIVE ScanRules(_, _, _)
ScanRules(faq, i, user_text) ==
    IF i > Len(faq) THEN None
    ELSE LET m == ScanPatterns(Split(faq[i].q, "|"), 1, user_text)
         IN  IF m.tag = "ok" THEN Ok(faq[i].a)
             ELSE IF m.tag = "raise" THEN m
             ELSE ScanRules(faq, i + 1, user_text)

\* The fuzzy phase.
FuzzyAnswer(faq, user_text, threshold) ==
    LET qlist == [k \in 1..Len(faq) |-> faq[k].q]
        best == extractOne(user_text, qlist)
    IN  IF best.idx # 0 /\ ScoreGeq(best.score, <<threshold, 1>>)
        THEN Ok(faq[IndexOf(qlist, qlist[best.idx])].a)
        ELSE None

faq_answer(faq, user_text, threshold) ==
    LET rule == ScanRules(faq, 1, user_text)
    IN  IF rule.tag = "none" THEN FuzzyAnswer(faq, user_text, threshold)
        ELSE rule

-----------------------------------------------------------------------------
(* gen_ai_reply.  The external chat-completion call is an input: it        *)
(* answers with some content, raises, or answers with a response that has  *)
(* no choices (IndexError) or no content (AttributeError on None.strip()). *)

canned_ru == <<"Ya utochnyu u menedzhera i vernus s otvetom">>
canned_uk == <<"Utochnyu u menedzhera i povernusya z vidpoviddyu">>

LlmContent(text) == [kind |-> "content", text |-> text]
LlmRaises == [kind |-> "raise", text |-> <<>>]
LlmNoChoices == [kind |-> "no_choices", text |-> <<>>]
LlmNoContent == [kind |-> "no_content", text |-> <<>>]

LlmOutcomes ==
    {LlmContent(<<" ", "a", "i", " ">>), LlmRaises, LlmNoChoices, LlmNoContent}

\* lines 81-84: the canned sentence for the effective language
CannedReply(user_lang) == IF user_lang = "ru" THEN canned_ru ELSE canned_uk

\* line 63: lang_hint or detect_lang(user_text)
EffectiveLang(user_text, lang_hint) ==
    IF lang_hint # "" THEN lang_hint ELSE detect_lang(user_text)

\* lines 67-76: the call and the reading of its response
try_completion(llm) ==
    CASE llm.kind = "content" -> Ok(Strip(llm.text))
      [] llm.kind = "raise" -> Raise("APIError")
      [] llm.kind = "no_choices" -> Raise("IndexError")
      [] llm.kind = "no_content" -> Raise("AttributeError")

\* gen_ai_reply without the try/except of lines 66 and 77
gen_ai_reply_unguarded(client, user_text, lang_hint, llm) ==
    LET user_lang == EffectiveLang(user_text, lang_hint)
        resp == try_completion(llm)
    IN  IF client THEN resp ELSE Ok(CannedReply(user_lang))

\* lines 65-84: `except Exception` logs and falls through to the canned reply
gen_ai_reply(client, user_text, lang_hint, llm) ==
    LET user_lang == EffectiveLang(user_text, lang_hint)
        resp == try_completion(llm)
    IN  IF client /\ resp.tag = "ok" THEN resp
        ELSE Ok(CannedReply(user_lang))

-----------------------------------------------------------------------------
(* save_lead and the lead store.  The timestamp column holds the clock's   *)
(* reading, written here as the fixed word utcnow.  Opening or writing the *)
(* file may fail with OSError: a failed open leaves the file as it was, a  *)
(* failed write leaves a file that exists and holds no new row.            *)

HeaderRow ==
    [kind |-> "header", timestamp |-> "timestamp", user_id |-> 0,
     username |-> "username", full_name |-> <<"full_name">>,
     phone |-> <<"phone">>, note |-> <<"note">>]

\* answers.get(name, "")
Get(answers, name) == IF name \in DOMAIN answers THEN answers[name] ELSE <<>>

LeadRow(user_id, username, answers) ==
    [kind |-> "row", timestamp |-> "utcnow", user_id |-> user_id,
     username |-> username, full_name |-> Get(answers, "full_name"),
     phone |-> Get(answers, "phone"), note |-> Get(answers, "note")]

IoOutcomes == {"ok", "open_fails", "write_fails"}

save_lead(csv, user_id, username, answers, io) ==
    IF io = "open_fails" THEN [csv |-> csv, raised |-> "OSError"]
    ELSE IF io = "write_fails"
    THEN [csv |-> [exists |-> TRUE, rows |-> csv.rows], raised |-> "OSError"]
    ELSE [csv |-> [exists |-> TRUE,
                   rows |-> (IF csv.exists THEN csv.rows ELSE <<HeaderRow>>)
                            \o <<LeadRow(user_id, username, answers)>>],
          raised |-> ""]

DataRows(csv) == {k \in 1..Len(csv.rows) : csv.rows[k].kind = "row"}

-----------------------------------------------------------------------------
(* The handlers.  An effect is what a handler does to the session map and  *)
(* the lead store, the replies it sends (a keyboard of <<>> is none), the  *)
(* branches of the router it entered and the exception it ended with;      *)
(* saves counts its calls of save_lead.                                    *)

Users == {1, 2}

\* update.effective_user.username or "": user 2 has no username
Username(user_id) == IF user_id = 1 THEN "olena" ELSE ""

NoKeyboard == <<>>

Reply(text, keyboard) == [text |-> text, keyboard |-> keyboard]

Effect(ls, csv, replies, entered, raised) ==
    [LEAD_STATE |-> ls, leads_csv |-> csv, replies |-> replies,
     entered |-> entered, raised |-> raised, saves |-> 0]

start_ru == <<"Privet! Ya AI-pomoshchnik magazina Shop Cozy">>
start_uk == <<"Pryvit! Ya AI-pomichnyk magazynu Shop Cozy">>
help_ru == <<"Komandy: /start /help /lead (ru)">>
help_uk == <<"Komandy: /start /help /lead (uk)">>
done_ru == <<"Spasibo! Zayavka peredana menedzheru">>
done_uk == <<"Dyakuyemo! Zayavku peredano menedzheru">>

\* dict assignment d[k] = v
Put(d, k, v) == [x \in DOMAIN d \cup {k} |-> IF x = k THEN v ELSE d[x]]

\* del d[k]
Del(d, k) == [x \in DOMAIN d \ {k} |-> d[x]]

EmptyDict == [x \in {} |-> x]

\* start with a cancel of the user's lead session
start_effect_cancels(data, lang0, ls, csv, user_id) ==
    Effect(IF user_id \in DOMAIN ls THEN Del(ls, user_id) ELSE ls, csv,
           <<Reply(IF lang0 = "ru" THEN start_ru ELSE start_uk,
                   build_keyboard(lang0))>>,
           {}, "")

\* lines 97-101
start_effect(data, lang0, ls, csv, user_id) ==
    Effect(ls, csv,
           <<Reply(IF lang0 = "ru" THEN start_ru ELSE start_uk,
                   build_keyboard(lang0))>>,
           {}, "")

\* lines 103-110
help_effect(data, lang0, ls, csv, user_id) ==
    Effect(ls, csv,
           <<Reply(IF lang0 = "uk" THEN help_uk ELSE help_ru, NoKeyboard)>>,
           {}, "")

\* lead with LEAD_STATE.setdefault in place of the assignment of line 114
lead_effect_keeps(data, ls, csv, user_id) ==
    LET fields == data.leads.fields
        ls1 == IF user_id \in DOMAIN ls THEN ls
               ELSE Put(ls, user_id, [step |-> 0, answers |-> EmptyDict])
    IN  IF Len(fields) = 0 THEN Effect(ls1, csv, <<>>, {}, "IndexError")
        ELSE Effect(ls1, csv, <<Reply(fields[1].label, NoKeyboard)>>, {}, "")

\* lines 112-116
lead_effect(data, ls, csv, user_id) ==
    LET fields == data.leads.fields
        ls1 == Put(ls, user_id, [step |-> 0, answers |-> EmptyDict])
    IN  IF Len(fields) = 0 THEN Effect(ls1, csv, <<>>, {}, "IndexError")
        ELSE Effect(ls1, csv, <<Reply(fields[1].label, NoKeyboard)>>, {}, "")

\* the lead flow with line 133 before line 131: the step is advanced before
\* the field is looked up, so the text is recorded under the next field
lead_flow_skips(data, ls, csv, user_id, username, text, lang, io) ==
    LET state == ls[user_id]
        fields == data.leads.fields
        step == state.step + 1
    IN  IF step >= Len(fields)
        THEN Effect(ls, csv, <<>>, {"lead_flow"}, "IndexError")
        ELSE
        LET key == fields[step + 1].name
            answers == Put(state.answers, key, text)
            ls1 == Put(ls, user_id, [step |-> step, answers |-> answers])
        IN  IF step + 1 >= Len(fields)
            THEN LET saved == save_lead(csv, user_id, username, answers, io)
                 IN  [(IF saved.raised # ""
                       THEN Effect(ls1, saved.csv, <<>>, {"lead_flow"}, saved.raised)
                       ELSE Effect(Del(ls1, user_id), saved.csv,
                                   <<Reply(IF lang = "uk" THEN done_uk ELSE done_ru,
                                           NoKeyboard)>>,
                                   {"lead_flow"}, ""))
                      EXCEPT !.saves = 1]
            ELSE Effect(ls1, csv, <<Reply(fields[step + 1].label, NoKeyboard)>>,
                        {"lead_flow"}, "")

\* the lead flow with line 132 replacing the answers by {key: text}
lead_flow_forgets(data, ls, csv, user_id, username, text, lang, io) ==
    LET state == ls[user_id]
        fields == data.leads.fields
        step == state.step
    IN  IF step >= Len(fields)
        THEN Effect(ls, csv, <<>>, {"lead_flow"}, "IndexError")
        ELSE
        LET key == fields[step + 1].name
            answers == Put(EmptyDict, key, text)
            ls1 == Put(ls, user_id, [step |-> step + 1, answers |-> answers])
        IN  IF step + 1 >= Len(fields)
            THEN LET saved == save_lead(csv, user_id, username, answers, io)
                 IN  [(IF saved.raised # ""
                       THEN Effect(ls1, saved.csv, <<>>, {"lead_flow"}, saved.raised)
                       ELSE Effect(Del(ls1, user_id), saved.csv,
                                   <<Reply(IF lang = "uk" THEN done_uk ELSE done_ru,
                                           NoKeyboard)>>,
                                   {"lead_flow"}, ""))
                      EXCEPT !.saves = 1]
            ELSE Effect(ls1, csv, <<Reply(fields[step + 2].label, NoKeyboard)>>,
                        {"lead_flow"}, "")

\* lines 127-141: the lead flow branch of text_router
lead_flow(data, ls, csv, user_id, username, text, lang, io) ==
    LET state == ls[user_id]
        fields == data.leads.fields
        step == state.step
    IN  IF step >= Len(fields)
        THEN Effect(ls, csv, <<>>, {"lead_flow"}, "IndexError")
        ELSE
        LET key == fields[step + 1].name
            answers == Put(state.answers, key, text)
            ls1 == Put(ls, user_id, [step |-> step + 1, answers |-> answers])
        IN  IF step + 1 >= Len(fields)
            THEN LET saved == save_lead(csv, user_id, username, answers, io)
                 IN  [(IF saved.raised # ""
                       THEN Effect(ls1, saved.csv, <<>>, {"lead_flow"}, saved.raised)
                       ELSE Effect(Del(ls1, user_id), saved.csv,
                                   <<Reply(IF lang = "uk" THEN done_uk ELSE done_ru,
                                           NoKeyboard)>>,
                                   {"lead_flow"}, ""))
                      EXCEPT !.saves = 1]
            ELSE Effect(ls1, csv, <<Reply(fields[step + 2].label, NoKeyboard)>>,
                        {"lead_flow"}, "")

quick_lead == {W(w_zalyshyty, w_zayavku), W(w_ostavit, w_zayavku)}
quick_contacts == {w_kontakty_uk, w_kontakty_ru}
quick_hours == {W(w_hodyny, w_roboty), W(w_chasy, w_raboty)}

\* lines 155-162 without the return of line 159: the AI fallback answers
\* whatever the resolver returned
faq_then_ai_always(data, client, ls, csv, text, lang, llm) ==
    LET ans == faq_answer(data.faq, text, FaqThreshold)
    IN  IF ans.tag = "raise" THEN Effect(ls, csv, <<>>, {"faq"}, ans.exc)
        ELSE Effect(ls, csv,
                    <<Reply(gen_ai_reply(client, text, lang, llm).val,
                            build_keyboard(lang))>>,
                    {"faq", "ai"}, "")

\* lines 155-162: the FAQ resolver, then the AI fallback
faq_then_ai(data, client, ls, csv, text, lang, llm) ==
    LET ans == faq_answer(data.faq, text, FaqThreshold)
    IN  IF ans.tag = "raise" THEN Effect(ls, csv, <<>>, {"faq"}, ans.exc)
        ELSE IF ans.tag = "ok" /\ ans.val # <<>>
        THEN Effect(ls, csv, <<Reply(ans.val, NoKeyboard)>>, {"faq"}, "")
        ELSE Effect(ls, csv,
                    <<Reply(gen_ai_reply(client, text, lang, llm).val,
                            build_keyboard(lang))>>,
                    {"faq", "ai"}, "")

\* lines 143-162: the branches taken by a user without a session
no_session(data, client, ls, csv, user_id, text, lang, llm) ==
    LET lower == Lower(text)
    IN  IF lower \in quick_lead
        THEN LET e == lead_effect(data, ls, csv, user_id)
             IN  [e EXCEPT !.entered = {"quick"}]
        ELSE IF lower \in quick_contacts
        THEN Effect(ls, csv,
                    <<Reply(<<"Telefon: ">> \o data.company.contacts.phone,
                            NoKeyboard)>>,
                    {"quick"}, "")
        ELSE IF lower \in quick_hours
        THEN Effect(ls, csv, <<Reply(data.company.work_hours, NoKeyboard)>>,
                    {"quick"}, "")
        ELSE faq_then_ai(data, client, ls, csv, text, lang, llm)

\* text_router with one session for all users: LEAD_STATE is read and
\* written under the key 1 in place of user_id
router_effect_one_key(data, lang0, client, ls, csv, user_id, raw, llm, io) ==
    IF raw = <<>> THEN Effect(ls, csv, <<>>, {}, "")
    ELSE
    LET text == Strip(raw)
        username == Username(user_id)
        lang == IF lang0 \notin {"uk", "ru"} THEN detect_lang(text) ELSE lang0
    IN  IF 1 \in DOMAIN ls
        THEN lead_flow(data, ls, csv, 1, username, text, lang, io)
        ELSE no_session(data, client, ls, csv, user_id, text, lang, llm)

\* text_router with the quick buttons of lines 143-153 tested before the
\* session of line 127
router_effect_quick_first(data, lang0, client, ls, csv, user_id, raw, llm, io) ==
    IF raw = <<>> THEN Effect(ls, csv, <<>>, {}, "")
    ELSE
    LET text == Strip(raw)
        username == Username(user_id)
        lang == IF lang0 \notin {"uk", "ru"} THEN detect_lang(text) ELSE lang0
    IN  IF Lower(text) \in quick_lead \cup quick_contacts \cup quick_hours
           \/ user_id \notin DOMAIN ls
        THEN no_session(data, client, ls, csv, user_id, text, lang, llm)
        ELSE lead_flow(data, ls, csv, user_id, username, text, lang, io)

\* lines 118-162
router_effect(data, lang0, client, ls, csv, user_id, raw, llm, io) ==
    IF raw = <<>> THEN Effect(ls, csv, <<>>, {}, "")
    ELSE
    LET text == Strip(raw)
        username == Username(user_id)
        lang == IF lang0 \notin {"uk", "ru"} THEN detect_lang(text) ELSE lang0
    IN  IF user_id \in DOMAIN ls
        THEN lead_flow(data, ls, csv, user_id, username, text, lang, io)
        ELSE no_session(data, client, ls, csv, user_id, text, lang, llm)

-----------------------------------------------------------------------------
(* The knowledge bases and messages drawn for the handlers.                *)

Entry(q, a) == [q |-> q, a |-> a]
Field(name) == [name |-> name, label |-> <<"label of ", name>>]

a_menu == <<"Menyu na sajti">>
a_delivery == <<"Dostavka 1-2 dni">>
a_price == <<"Vartist dostavky 50 grn">>
a_other == <<"Insha vidpovid">>

faq_good == << Entry(w_menyu \o <<"|">> \o w_tsina, a_menu),
               Entry(w_oplata, a_price) >>
faq_malformed == << Entry(w_menyu, a_menu), Entry(<<"(">>, a_other) >>
faq_empty_answer == << Entry(w_menyu, <<>>) >>

\* the lead field lists: the columns of the store, a shorter list, one field,
\* a field the store has no column for, and a repeated field name
f_name_phone == << Field("full_name"), Field("phone") >>

FieldLists ==
    { << Field("full_name") >>,
      f_name_phone,
      << Field("full_name"), Field("phone"), Field("note") >>,
      << Field("full_name"), Field("email") >>,
      << Field("phone"), Field("phone"), Field("note") >> }

KnowledgeBase(faq, fields) ==
    [faq |-> faq,
     leads |-> [fields |-> fields],
     company |-> [contacts |-> [phone |-> <<"+380501234567">>],
                  work_hours |-> <<"9:00-18:00">>]]

\* a deployment: the FAQ list, BOT_LANG, and whether OPENAI_API_KEY is set
Deployment(faq, lang, client, fields) ==
    [data |-> KnowledgeBase(faq, fields), lang |-> lang, client |-> client]

Deployments ==
    { Deployment(faq_good, "uk", FALSE, f_name_phone),
      Deployment(faq_good, "ru", TRUE, f_name_phone),
      Deployment(faq_malformed, "en", TRUE, f_name_phone),
      Deployment(faq_empty_answer, "en", FALSE, f_name_phone) }
    \cup { Deployment(faq_good, "uk", FALSE, fields) : fields \in FieldLists }

\* the messages the users send (update.message.text): user 1 presses the
\* lead button of the keyboard or asks for the menu, user 2 presses another
\* button or asks the price; the buttons are those of the deployment's keyboard
t_lead_uk == W(w_Zalyshyty, w_zayavku) \o <<" ">>
t_lead_ru == W(w_ostavit, w_zayavku)
t_contacts == w_Kontakty_uk
t_hours == W(w_chasy, w_raboty)
t_menu == w_Menyu
t_price == w_tsena
t_empty == <<>>

TextsOf(user_id) ==
    IF user_id = 1
    THEN {IF BOT_LANG = "ru" THEN t_lead_ru ELSE t_lead_uk, t_menu}
    ELSE {IF BOT_LANG = "ru" THEN t_hours ELSE t_contacts, t_price, t_empty}

-----------------------------------------------------------------------------
(***************************************************************************)
(* The state machine of the handlers.  The application built at line 167    *)
(* and run at line 173 handles one update at a time: it takes the next     *)
(* update (next_update) and runs its handler to the end, so a handler is   *)
(* one step.  last describes the handler that has just run.                *)
(***************************************************************************)

NoRun == [active |-> FALSE, texts |-> <<>>, saved |-> 0]

NewRun == [active |-> TRUE, texts |-> <<>>, saved |-> 0]

NoCall ==
    [fn |-> "", text |-> <<>>, threshold |-> 0, lang_hint |-> "",
     llm |-> LlmRaises, result |-> None]

\* step_before is the step of the user's session when the handler began, -1
\* when there was none
Idle ==
    [handler |-> "", user |-> 0, text |-> <<>>, step_before |-> -1,
     replies |-> <<>>, entered |-> {}, raised |-> "", saves |-> 0,
     call |-> NoCall]

NumFields == Len(DATA.leads.fields)

\* rows appended to the store by an effect
Appended(csv, e) == Cardinality(DataRows(e.leads_csv)) - Cardinality(DataRows(csv))

\* a run that saw its N texts is forgotten when the next update is taken
Forget(r) == IF r.active /\ Len(r.texts) >= NumFields THEN NoRun ELSE r

Handled(name, user_id, raw, e) ==
    /\ LEAD_STATE' = e.LEAD_STATE
    /\ leads_csv' = e.leads_csv
    /\ last' = [handler |-> name, user |-> user_id, text |-> raw,
                step_before |-> IF user_id \in DOMAIN LEAD_STATE
                                THEN LEAD_STATE[user_id].step ELSE -1,
                replies |-> e.replies, entered |-> e.entered,
                raised |-> e.raised, saves |-> e.saves, call |-> NoCall]
    /\ UNCHANGED <<DATA, BOT_LANG, openai_client>>

Init ==
    /\ \E d \in Deployments :
          /\ DATA = d.data
          /\ BOT_LANG = d.lang
          /\ openai_client = d.client
    /\ LEAD_STATE = EmptyDict
    /\ leads_csv = [exists |-> FALSE, rows |-> <<>>]
    /\ last = Idle
    /\ run = [u \in Users |-> NoRun]
    /\ started = 0
    /\ tasks = <<>>

next_update ==
    /\ last # Idle
    /\ last.handler # "probe"
    /\ last' = Idle
    /\ run' = [u \in Users |-> Forget(run[u])]
    /\ UNCHANGED <<DATA, BOT_LANG, openai_client, LEAD_STATE, leads_csv, started>>

start(user_id) ==
    /\ last = Idle
    /\ Handled("start", user_id, <<>>,
               start_effect(DATA, BOT_LANG, LEAD_STATE, leads_csv, user_id))
    /\ UNCHANGED <<run, started>>

help_cmd(user_id) ==
    /\ last = Idle
    /\ Handled("help_cmd", user_id, <<>>,
               help_effect(DATA, BOT_LANG, LEAD_STATE, leads_csv, user_id))
    /\ UNCHANGED <<run, started>>

lead(user_id) ==
    /\ last = Idle
    /\ started < MaxLeads
    /\ started' = started + 1
    /\ Handled("lead", user_id, <<>>,
               lead_effect(DATA, LEAD_STATE, leads_csv, user_id))
    /\ run' = [run EXCEPT ![user_id] = NewRun]

text_router(user_id, raw, llm, io) ==
    /\ last = Idle
    /\ \E e \in {router_effect(DATA, BOT_LANG, openai_client, LEAD_STATE, leads_csv,
                               user_id, raw, llm, io)} :
       LET opens == user_id \notin DOMAIN LEAD_STATE /\ user_id \in DOMAIN e.LEAD_STATE
       IN  /\ opens => started < MaxLeads
           /\ started' = IF opens THEN started + 1 ELSE started
           /\ Handled("text_router", user_id, raw, e)
           /\ run' = [run EXCEPT ![user_id] =
                         IF opens THEN NewRun
                         ELSE IF raw # <<>> /\ user_id \in DOMAIN LEAD_STATE /\ @.active
                         THEN [@ EXCEPT !.texts = Append(@, Strip(raw)),
                                        !.saved = @ + Appended(leads_csv, e)]
                         ELSE @]

\* The inputs a handler reads: the model is called only for a user without a
\* session and only when there is a client, and only the lead flow writes
\* the store.
LlmFor(user_id) ==
    IF user_id \in DOMAIN LEAD_STATE \/ ~openai_client THEN {LlmRaises}
    ELSE LlmOutcomes

IoFor(user_id) == IF user_id \in DOMAIN LEAD_STATE THEN IoOutcomes ELSE {"ok"}

\* One update at a time: no coroutine is left in flight.
Next ==
    \/ next_update /\ UNCHANGED tasks
    \/ \E u \in Users : start(u) /\ UNCHANGED tasks
    \/ \E u \in Users : help_cmd(u) /\ UNCHANGED tasks
    \/ \E u \in Users : lead(u) /\ UNCHANGED tasks
    \/ \E u \in Users : \E raw \in TextsOf(u), llm \in LlmFor(u), io \in IoFor(u) :
          text_router(u, raw, llm, io) /\ UNCHANGED tasks

Spec == Init /\ [][Next]_vars

-----------------------------------------------------------------------------
(* The FAQ resolver on its own: a knowledge base of up to MaxFaq entries   *)
(* drawn from a pool, and one call of faq_answer.                          *)

EntryPool ==
    { Entry(w_menyu \o <<"|">> \o w_dostavka, a_menu),
      Entry(w_dostavka, a_delivery),
      Entry(w_tsina \o <<"|", "(">>, a_other),
      Entry(W(w_yaka, W(w_vartist, w_dostavky)), a_price),
      Entry(w_oplata \o <<" ", "|", " ">> \o w_tsena, <<"Oplata kartkoyu">>),
      Entry(W(w_vartist, w_dostavky), <<"Vid 50 grn">>) }

RECURSIVE FaqLists(_)
FaqLists(n) ==
    IF n = 0 THEN {<<>>}
    ELSE FaqLists(n - 1)
         \cup {Append(l, e) : l \in {x \in FaqLists(n - 1) : Len(x) = n - 1},
                              e \in EntryPool}

Utterances ==
    { w_Menyu,
      W(w_yaka, W(<<"u">>, W(<<"v", "a", "s">>, w_dostavka \o <<"?">>))),
      w_tsina,
      w_tsena,
      W(w_yaka, W(w_vartist, <<"d", "o", "s", "t", "a", "v", "o", "k">>)),
      W(w_dostavky, w_vartist),
      w_privet,
      <<>> }

Thresholds == {FaqThreshold, 100}

Probe(call) == [Idle EXCEPT !.handler = "probe", !.call = call]

InitFaq ==
    /\ \E faq \in FaqLists(MaxFaq) : DATA = KnowledgeBase(faq, f_name_phone)
    /\ BOT_LANG = "uk"
    /\ openai_client = FALSE
    /\ LEAD_STATE = EmptyDict
    /\ leads_csv = [exists |-> FALSE, rows |-> <<>>]
    /\ last = Idle
    /\ run = [u \in Users |-> NoRun]
    /\ started = 0
    /\ tasks = <<>>

faq_probe(user_text, threshold) ==
    /\ last = Idle
    /\ last' = Probe([NoCall EXCEPT
                         !.fn = "faq_answer", !.text = user_text,
                         !.threshold = threshold,
                         !.result = faq_answer(DATA.faq, user_text, threshold)])
    /\ UNCHANGED <<DATA, BOT_LANG, openai_client, LEAD_STATE, leads_csv, run, started>>

NextFaq == \E user_text \in Utterances, threshold \in Thresholds :
              faq_probe(user_text, threshold) /\ UNCHANGED tasks

SpecFaq == InitFaq /\ [][NextFaq]_vars

-----------------------------------------------------------------------------
(* The AI fallback generator on its own: one call of gen_ai_reply.         *)

LangHints == {"uk", "ru", "en", ""}

AiTexts == {w_tsena, w_tsina, w_privet, W(w_privet, w_menyu), <<>>}

InitAi ==
    /\ DATA = KnowledgeBase(faq_good, f_name_phone)
    /\ BOT_LANG = "uk"
    /\ openai_client \in BOOLEAN
    /\ LEAD_STATE = EmptyDict
    /\ leads_csv = [exists |-> FALSE, rows |-> <<>>]
    /\ last = Idle
    /\ run = [u \in Users |-> NoRun]
    /\ started = 0
    /\ tasks = <<>>

ai_probe(user_text, lang_hint, llm) ==
    /\ last = Idle
    /\ last' = Probe([NoCall EXCEPT
                         !.fn = "gen_ai_reply", !.text = user_text,
                         !.lang_hint = lang_hint, !.llm = llm,
                         !.result = gen_ai_reply(openai_client, user_text,
                                                 lang_hint, llm)])
    /\ UNCHANGED <<DATA, BOT_LANG, openai_client, LEAD_STATE, leads_csv, run, started>>

NextAi == \E user_text \in AiTexts, lang_hint \in LangHints, llm \in LlmOutcomes :
             ai_probe(user_text, lang_hint, llm) /\ UNCHANGED tasks

SpecAi == InitAi /\ [][NextAi]_vars

-----------------------------------------------------------------------------
(***************************************************************************)
(* The handlers as coroutines.  The dispatcher is taken in its most        *)
(* permissive form: a coroutine is created for every inbound update and    *)
(* any number of them are in flight, interleaved at their suspension       *)
(* points.  The application built at line 167 handles one update at a      *)
(* time, which is the behaviours in which a coroutine is created only when *)
(* every earlier one is done.                                              *)
(*                                                                         *)
(* A handler runs without suspension from its first line to its one await  *)
(* of the transport, reply_text (lines 101, 110, 116, 138, 140, 150, 153,  *)
(* 158, 162), and returns when that await resumes: `await lead(...)` at    *)
(* line 146 and `await gen_ai_reply(...)` at line 161 enter a coroutine    *)
(* that does not suspend before it, and save_lead is an ordinary call.     *)
(* The chat-completion call of line 67 is an ordinary call of the          *)
(* synchronous client built at line 13: the coroutine that makes it keeps  *)
(* the event loop until the call returns.                                  *)
(*                                                                         *)
(* pc of a coroutine: created, calling (inside the call of line 67),       *)
(* replying (suspended in reply_text), done.  A coroutine that is done is  *)
(* kept as Returned, without its update.                                   *)
(***************************************************************************)

Task(handler, user_id, raw) ==
    [handler |-> handler, user |-> user_id, text |-> raw, pc |-> "created"]

Returned == [handler |-> "", user |-> 0, text |-> <<>>, pc |-> "done"]

\* a coroutine is inside the external call and keeps the event loop
LoopHeld == \E k \in 1..Len(tasks) : tasks[k].pc = "calling"

\* the configurations drawn for the coroutines: one lead field or two, with
\* and without a client
TaskDeployments ==
    { Deployment(faq_good, "uk", FALSE, << Field("full_name") >>),
      Deployment(faq_good, "ru", TRUE, f_name_phone) }

InitTasks ==
    /\ \E d \in TaskDeployments :
          /\ DATA = d.data
          /\ BOT_LANG = d.lang
          /\ openai_client = d.client
    /\ LEAD_STATE = EmptyDict
    /\ leads_csv = [exists |-> FALSE, rows |-> <<>>]
    /\ last = Idle
    /\ run = [u \in Users |-> NoRun]
    /\ started = 0
    /\ tasks = <<>>

\* an update arrives and a coroutine is created for its handler
create_task(handler, user_id, raw) ==
    /\ Len(tasks) < MaxTasks
    /\ tasks' = Append(tasks, Task(handler, user_id, raw))
    /\ UNCHANGED <<DATA, BOT_LANG, openai_client, LEAD_STATE, leads_csv, last, run,
                   started>>

\* The coroutine runs its handler: up to the call of line 67 when the handler
\* makes it, otherwise up to the await of reply_text or to the exception
\* that ends the handler.  Nothing but the reply follows the call of line
\* 67, and its outcome llm is drawn as the call is entered.
task_run(t, llm, io) ==
    /\ ~LoopHeld
    /\ tasks[t].pc = "created"
    /\ \/ tasks[t].handler = "start" /\ start(tasks[t].user)
       \/ tasks[t].handler = "help_cmd" /\ help_cmd(tasks[t].user)
       \/ tasks[t].handler = "lead" /\ lead(tasks[t].user)
       \/ /\ tasks[t].handler = "text_router"
          /\ text_router(tasks[t].user, tasks[t].text, llm, io)
    /\ tasks' = [tasks EXCEPT ![t] =
                    IF openai_client /\ "ai" \in last'.entered
                    THEN [@ EXCEPT !.pc = "calling"]
                    ELSE IF last'.replies # <<>>
                    THEN [@ EXCEPT !.pc = "replying"]
                    ELSE Returned]

\* lines 76-78, 162: the call of line 67 returns or raises, and the handler
\* goes on to the await of reply_text
call_end(t) ==
    /\ tasks[t].pc = "calling"
    /\ tasks' = [tasks EXCEPT ![t].pc = "replying"]
    /\ UNCHANGED <<DATA, BOT_LANG, openai_client, LEAD_STATE, leads_csv, last, run,
                   started>>

\* reply_text resumes and the handler returns
reply_sent(t) ==
    /\ ~LoopHeld
    /\ tasks[t].pc = "replying"
    /\ tasks' = [tasks EXCEPT ![t] = Returned]
    /\ UNCHANGED <<DATA, BOT_LANG, openai_client, LEAD_STATE, leads_csv, last, run,
                   started>>

\* the event loop takes the next coroutine that is ready
task_switch ==
    /\ ~LoopHeld
    /\ next_update
    /\ UNCHANGED tasks

NextTasks ==
    \/ \E u \in Users : \E handler \in {"start", "help_cmd", "lead"} :
          create_task(handler, u, <<>>)
    \/ \E u \in Users : \E raw \in TextsOf(u) : create_task("text_router", u, raw)
    \/ \E t \in 1..Len(tasks) :
          \E llm \in IF tasks[t].pc = "done" THEN {} ELSE LlmFor(tasks[t].user),
             io \in IF tasks[t].pc = "done" THEN {} ELSE IoFor(tasks[t].user) :
             task_run(t, llm, io)
    \/ \E t \in 1..Len(tasks) : call_end(t)
    \/ \E t \in 1..Len(tasks) : reply_sent(t)
    \/ task_switch

SpecTasks == InitTasks /\ [][NextTasks]_vars

-----------------------------------------------------------------------------
(***************************************************************************)
(* Properties of the FAQ resolver (SpecFaq).                               *)
(***************************************************************************)

\* the call of faq_answer that has just returned
FaqCall == last.handler = "probe" /\ last.call.fn = "faq_answer"

\* an entry matches when one of its sub-patterns compiles and is found in
\* the utterance, case-insensitively (lines 48-50)
EntryMatches(entry, user_text) ==
    LET patterns == Split(entry.q, "|")
    IN  \E k \in 1..Len(patterns) :
           /\ Compiles(Strip(patterns[k]))
           /\ re_search(Strip(patterns[k]), user_text).tag = "ok"

\* the entries of the knowledge base that match
Hits(faq, user_text) == {i \in 1..Len(faq) : EntryMatches(faq[i], user_text)}

\* the first entry, in knowledge-base order, at the highest fuzzy score
Best(faq, user_text) ==
    CHOOSE i \in 1..Len(faq) :
        /\ \A j \in 1..Len(faq) :
              ScoreGeq(token_set_ratio(user_text, faq[i].q),
                       token_set_ratio(user_text, faq[j].q))
        /\ \A j \in 1..(i - 1) :
              ScoreGt(token_set_ratio(user_text, faq[i].q),
                      token_set_ratio(user_text, faq[j].q))

\* the answer of the fuzzy phase: the best entry's if its score reaches the
\* threshold, otherwise no match
FuzzyResult(faq, user_text, threshold) ==
    IF Len(faq) > 0
       /\ ScoreGeq(token_set_ratio(user_text, faq[Best(faq, user_text)].q),
                   <<threshold, 1>>)
    THEN Ok(faq[Best(faq, user_text)].a)
    ELSE None

\* C8: an utterance that matches a sub-pattern of some entry gets the answer
\* of the first matching entry in knowledge-base order, whatever the fuzzy
\* scores are.  Fails: a sub-pattern that does not compile, scanned before
\* the first match, ends the call with re.error.
C8_FirstMatchingEntry ==
    FaqCall =>
        LET hits == Hits(DATA.faq, last.call.text)
        IN  hits # {} =>
               last.call.result =
                  Ok(DATA.faq[CHOOSE i \in hits : \A j \in hits : i <= j].a)

\* C9: when no sub-pattern of any entry matches, the resolver returns the
\* answer of the first entry at the highest fuzzy score if that score is at
\* least the threshold, and no match otherwise.  Fails: with a sub-pattern
\* that does not compile the call ends with re.error before the fuzzy phase.
C9_FuzzyPhase ==
    FaqCall =>
        (Hits(DATA.faq, last.call.text) = {} =>
            last.call.result =
               FuzzyResult(DATA.faq, last.call.text, last.call.threshold))

\* C10: a sub-pattern that does not compile never makes the resolver fail;
\* the result is that of the rule phase and the fuzzy phase with the
\* sub-pattern skipped.  Fails: re.error leaves faq_answer.
C10_MalformedSkipped ==
    FaqCall =>
        /\ last.call.result.tag # "raise"
        /\ last.call.result =
              (IF Hits(DATA.faq, last.call.text) # {}
               THEN Ok(DATA.faq[CHOOSE i \in Hits(DATA.faq, last.call.text) :
                                   \A j \in Hits(DATA.faq, last.call.text) : i <= j].a)
               ELSE FuzzyResult(DATA.faq, last.call.text, last.call.threshold))

-----------------------------------------------------------------------------
(***************************************************************************)
(* Properties of the AI fallback generator (SpecAi).                       *)
(***************************************************************************)

\* the call of gen_ai_reply that has just returned
AiCall == last.handler = "probe" /\ last.call.fn = "gen_ai_reply"

\* no client, a failed call, or a response without choices or content
AiFailure == ~openai_client \/ last.call.llm.kind # "content"

-----------------------------------------------------------------------------
(***************************************************************************)
(* Properties of the handlers (Spec).                                      *)
(***************************************************************************)

\* text_router has just handled a text of the user
RouterHandled == last.handler = "text_router" /\ last.text # <<>>

StoreColumns == {"full_name", "phone", "note"}

\* C1: a lead session followed by exactly N texts of its user yields exactly
\* one record of that user, holding the i-th text under the name of the
\* i-th field, and leaves the user without a session.  Fails: save_lead
\* writes the columns full_name, phone and note whatever the field names
\* are, and a failed write leaves the session and no record.
C1_RunYieldsOneRecord ==
    \A u \in Users :
        (run[u].active /\ Len(run[u].texts) = NumFields) =>
            /\ u \notin DOMAIN LEAD_STATE
            /\ run[u].saved = 1
            /\ LET row == leads_csv.rows[Len(leads_csv.rows)]
               IN  /\ row.kind = "row"
                   /\ row.user_id = u
                   /\ \A i \in 1..NumFields :
                         /\ DATA.leads.fields[i].name \in StoreColumns
                         /\ row[DATA.leads.fields[i].name] = run[u].texts[i]

\* C2: a text of a user who has a session is consumed by the lead flow: the
\* quick replies, the FAQ resolver and the AI fallback are not entered.
C2_SessionConsumesText ==
    (RouterHandled /\ last.step_before >= 0) => last.entered = {"lead_flow"}

\* a quick-reply phrase was consumed as the answer to a lead field
C2_Witness ==
    /\ RouterHandled
    /\ last.step_before >= 0
    /\ Lower(Strip(last.text)) \in quick_lead
    /\ last.entered = {"lead_flow"}
    /\ last.raised = ""

\* C3 (as the code has it): for a text of a user without a session, a quick
\* phrase is answered without the resolver or the AI fallback; a resolver
\* answer that is not empty is sent and the AI fallback is not invoked; the
\* AI fallback is invoked only when the text is no quick phrase and the
\* resolver returned no match or an empty answer.
C3_RouterOrder ==
    (RouterHandled /\ last.step_before = -1) =>
        LET text == Strip(last.text)
            quick == Lower(text) \in quick_lead \cup quick_contacts \cup quick_hours
            ans == faq_answer(DATA.faq, text, FaqThreshold)
        IN  /\ quick => last.entered = {"quick"}
            /\ (~quick /\ ans.tag = "ok" /\ ans.val # <<>>) =>
                  /\ last.entered = {"faq"}
                  /\ last.replies = <<Reply(ans.val, NoKeyboard)>>
            /\ "ai" \in last.entered =>
                  /\ ~quick
                  /\ "faq" \in last.entered
                  /\ ans.tag = "none" \/ ans = Ok(<<>>)

\* C3 (as stated): whenever the resolver returns an answer that answer is
\* sent and the AI fallback is not invoked; the AI fallback is invoked only
\* when the resolver returned no match.
C3_RouterOrderAnyAnswer ==
    (RouterHandled /\ last.step_before = -1) =>
        LET text == Strip(last.text)
            quick == Lower(text) \in quick_lead \cup quick_contacts \cup quick_hours
            ans == faq_answer(DATA.faq, text, FaqThreshold)
        IN  /\ quick => last.entered = {"quick"}
            /\ (~quick /\ ans.tag = "ok") =>
                  /\ last.entered = {"faq"}
                  /\ last.replies = <<Reply(ans.val, NoKeyboard)>>
            /\ "ai" \in last.entered =>
                  /\ ~quick
                  /\ "faq" \in last.entered
                  /\ ans.tag = "none"

\* the resolver's answer was sent and the AI fallback was not invoked
C3_Witness ==
    /\ RouterHandled
    /\ last.step_before = -1
    /\ last.entered = {"faq"}
    /\ last.replies = <<Reply(a_menu, NoKeyboard)>>

\* C4: every text handled by the router gets exactly one reply, with a
\* keyboard exactly on the AI fallback branch.  Fails: a handler that ends
\* with an exception (re.error of the resolver, OSError of the store,
\* IndexError of a session left at step N) sends no reply.
C4_ExactlyOneReply ==
    RouterHandled =>
        /\ Len(last.replies) = 1
        /\ last.replies[1].keyboard # NoKeyboard <=> "ai" \in last.entered

\* the lead command, or the lead button pressed without a session
LeadStarted(u) ==
    /\ last'.user = u
    /\ \/ last'.handler = "lead"
       \/ /\ last'.handler = "text_router"
          /\ u \notin DOMAIN LEAD_STATE
          /\ Lower(Strip(last'.text)) \in quick_lead

\* C5: the lead command leaves its user with a session at step 0 with no
\* answers, persists nothing, and replies with the label of field 0.
C5_LeadResets ==
    [][ \A u \in Users :
           LeadStarted(u) =>
              /\ u \in DOMAIN LEAD_STATE'
              /\ LEAD_STATE'[u] = [step |-> 0, answers |-> EmptyDict]
              /\ leads_csv' = leads_csv
              /\ last'.replies = <<Reply(DATA.leads.fields[1].label, NoKeyboard)>>
              /\ last'.raised = "" ]_vars

\* the lead command reset a session that had collected an answer
C5_Witness ==
    /\ last.handler = "lead"
    /\ last.step_before >= 1
    /\ last.user \in DOMAIN LEAD_STATE
    /\ LEAD_STATE[last.user] = [step |-> 0, answers |-> EmptyDict]

\* the router handles a text of user u, whose session is at a step i with
\* i + 1 < N
StepTaken(u) ==
    /\ last'.handler = "text_router"
    /\ last'.user = u
    /\ last'.text # <<>>
    /\ u \in DOMAIN LEAD_STATE
    /\ LEAD_STATE[u].step + 1 < NumFields

\* what every step that is not the last does: it records the text under the
\* field's name, advances step, persists nothing, replies with the next label
StepRecords(u) ==
    LET i == LEAD_STATE[u].step
        fields == DATA.leads.fields
    IN  /\ u \in DOMAIN LEAD_STATE'
        /\ fields[i + 1].name \in DOMAIN LEAD_STATE'[u].answers
        /\ LEAD_STATE'[u].answers[fields[i + 1].name] = Strip(last'.text)
        /\ LEAD_STATE'[u].step = i + 1
        /\ leads_csv' = leads_csv
        /\ last'.replies = <<Reply(fields[i + 2].label, NoKeyboard)>>

\* the answer of the earlier field j is what it was
EarlierKept(u, j) ==
    LET name == DATA.leads.fields[j].name
    IN  /\ name \in DOMAIN LEAD_STATE[u].answers
        /\ u \in DOMAIN LEAD_STATE'
        /\ name \in DOMAIN LEAD_STATE'[u].answers
        /\ LEAD_STATE'[u].answers[name] = LEAD_STATE[u].answers[name]

\* C6 (as the code has it): at step i with i + 1 < N the text v is recorded
\* under fields[i].name, the answers of the earlier fields of another name
\* are unchanged, step becomes i + 1, nothing is persisted and the reply is
\* the label of field i + 1.
C6_StepKeepsOtherNames ==
    [][ \A u \in Users :
           StepTaken(u) =>
              /\ StepRecords(u)
              /\ \A j \in 1..LEAD_STATE[u].step :
                    DATA.leads.fields[j].name
                       # DATA.leads.fields[LEAD_STATE[u].step + 1].name
                    => EarlierKept(u, j) ]_vars

\* C6 (as stated): the answers of all earlier fields are unchanged.
C6_StepKeepsEarlier ==
    [][ \A u \in Users :
           StepTaken(u) =>
              /\ StepRecords(u)
              /\ \A j \in 1..LEAD_STATE[u].step : EarlierKept(u, j) ]_vars

\* step 1 of three fields was answered: two answers are held, the first
\* of them the text of step 0
C6_Witness ==
    /\ RouterHandled
    /\ last.step_before = 1
    /\ NumFields = 3
    /\ last.user \in DOMAIN LEAD_STATE
    /\ LEAD_STATE[last.user].step = 2
    /\ DOMAIN LEAD_STATE[last.user].answers = {"full_name", "phone"}
    /\ LEAD_STATE[last.user].answers["phone"] = Strip(last.text)
    /\ run[last.user].active
    /\ LEAD_STATE[last.user].answers["full_name"] = run[last.user].texts[1]

\* C11: every session has 0 <= step <= N, and the lead flow never indexes a
\* field past the end of the field list.  Fails: a session that a failed
\* write left at step N makes the next text read fields[N] (IndexError).
C11_StepInRange ==
    /\ \A u \in DOMAIN LEAD_STATE :
          LEAD_STATE[u].step \in 0..NumFields
    /\ last.raised # "IndexError"

\* C12: between handlers no session with step = N is in the session map,
\* and the answers of a completed lead are not retained.  Fails: the step is
\* advanced before save_lead is called and the session is deleted after it,
\* so a failed write leaves the session at step N with all its answers.
C12_NoSessionAtN ==
    \A u \in DOMAIN LEAD_STATE : LEAD_STATE[u].step # NumFields

\* the final text of a lead: the step of the session was N - 1
FinalText ==
    /\ last'.handler = "text_router"
    /\ last'.text # <<>>
    /\ last'.step_before = NumFields - 1

\* C13: the store is the header row once, as its first row, then one whole
\* row per completed lead; rows written are never changed or removed.
\* Fails: a write that fails leaves a completed lead without a row, and when
\* it has created the file the header is never written.
C13_HeaderThenRows ==
    [][ /\ leads_csv'.rows # <<>> =>
              /\ leads_csv'.rows[1] = HeaderRow
              /\ \A k \in 2..Len(leads_csv'.rows) : leads_csv'.rows[k].kind = "row"
        /\ Len(leads_csv'.rows) >= Len(leads_csv.rows)
        /\ \A k \in 1..Len(leads_csv.rows) : leads_csv'.rows[k] = leads_csv.rows[k]
        /\ Cardinality(DataRows(leads_csv')) =
              Cardinality(DataRows(leads_csv)) + (IF FinalText THEN 1 ELSE 0)
      ]_vars

\* C16: on every failure path of a text message the handler ends by sending
\* a sentence, never with an unhandled error and no reply.  Fails: re.error
\* of the resolver and OSError of the store leave text_router uncaught.
C16_FailureStillReplies ==
    (last.handler = "text_router" /\ last.text # <<>>) =>
        /\ last.raised = ""
        /\ last.replies # <<>>

\* C17: when the write of a completed lead fails, the write is attempted at
\* least once more before the record is given up.  Fails: save_lead is
\* called once and its OSError ends the handler.
C17_WriteRetried ==
    (last.handler = "text_router" /\ last.raised = "OSError") => last.saves >= 2

\* the field names are pairwise distinct
DistinctNames ==
    \A i, j \in 1..NumFields :
        DATA.leads.fields[i].name = DATA.leads.fields[j].name => i = j

\* C18: with pairwise distinct field names, the keys of the answers of every
\* session are exactly the names of its first step fields.
C18_AnswersAreFirstFields ==
    DistinctNames =>
        \A u \in DOMAIN LEAD_STATE :
            /\ LEAD_STATE[u].step \in 0..NumFields
            /\ DOMAIN LEAD_STATE[u].answers =
                  {DATA.leads.fields[i].name : i \in 1..LEAD_STATE[u].step}
            /\ Cardinality(DOMAIN LEAD_STATE[u].answers) = LEAD_STATE[u].step

\* a session that has been asked two of its three fields
C18_Witness ==
    /\ DistinctNames
    /\ NumFields = 3
    /\ \E u \in DOMAIN LEAD_STATE :
          /\ LEAD_STATE[u].step = 2
          /\ DOMAIN LEAD_STATE[u].answers = {"full_name", "phone"}
    /\ last.handler = "text_router"

\* C19: a session is removed only by its user's text that answers the final
\* field; start and help leave the session map as it is; lead resets the
\* session and never removes it.
C19_NoCancel ==
    [][ /\ \A u \in DOMAIN LEAD_STATE :
              u \notin DOMAIN LEAD_STATE' =>
                 /\ last'.handler = "text_router"
                 /\ last'.user = u
                 /\ last'.text # <<>>
                 /\ LEAD_STATE[u].step = NumFields - 1
        /\ last'.handler \in {"start", "help_cmd"} => LEAD_STATE' = LEAD_STATE
        /\ last'.handler = "lead" => last'.user \in DOMAIN LEAD_STATE'
      ]_vars

\* start was handled for a user whose session holds an answer, and the
\* session is still there
C19_Witness ==
    /\ last.handler = "start"
    /\ last.step_before >= 1
    /\ last.user \in DOMAIN LEAD_STATE
    /\ LEAD_STATE[last.user].step = last.step_before

\* the texts a row holds
RowTexts(row) == {row.full_name, row.phone, row.note}

\* C20: a handler of user A never creates, changes or removes the session
\* of another user B, and a record persisted for A holds only texts sent by
\* A.
C20_UsersIsolated ==
    [][ last'.handler \in {"start", "help_cmd", "lead", "text_router"} =>
          /\ \A b \in Users \ {last'.user} :
                /\ b \in DOMAIN LEAD_STATE' <=> b \in DOMAIN LEAD_STATE
                /\ b \in DOMAIN LEAD_STATE => LEAD_STATE'[b] = LEAD_STATE[b]
          /\ \A k \in (Len(leads_csv.rows) + 1)..Len(leads_csv'.rows) :
                leads_csv'.rows[k].kind = "row" =>
                   /\ leads_csv'.rows[k].user_id = last'.user
                   /\ RowTexts(leads_csv'.rows[k])
                         \subseteq {run'[last'.user].texts[i] :
                                       i \in 1..Len(run'[last'.user].texts)}
                                   \cup {<<>>}
      ]_vars

\* a user completed a lead while the other user's session held an answer
C20_Witness ==
    /\ last.handler = "text_router"
    /\ last.saves = 1
    /\ last.raised = ""
    /\ last.user \notin DOMAIN LEAD_STATE
    /\ \E b \in DOMAIN LEAD_STATE : LEAD_STATE[b].step >= 1
    /\ leads_csv.rows[Len(leads_csv.rows)].user_id = last.user

-----------------------------------------------------------------------------
(***************************************************************************)
(* Properties of the handlers as coroutines (SpecTasks).                   *)
(***************************************************************************)

\* coroutine t runs the handler of a text of a user who has a session, while
\* another coroutine of that user is in flight
TextRunsBesideAnother(t) ==
    /\ tasks[t].pc = "created"
    /\ tasks'[t].pc # "created"
    /\ tasks[t].handler = "text_router"
    /\ tasks[t].text # <<>>
    /\ tasks[t].user \in DOMAIN LEAD_STATE
    /\ \E k \in 1..Len(tasks) \ {t} :
          /\ tasks[k].user = tasks[t].user
          /\ tasks[k].pc \in {"created", "calling", "replying"}

\* C14: with several coroutines of one user in flight, each text is recorded
\* under exactly one field, the field at the session's step, and advances
\* the step by one; no earlier answer is lost, and a run of N texts is
\* persisted at most once.  Fails: in a session that a failed write left at
\* step N a text is recorded under no field (IndexError).
C14_SessionUpdatesSerialized ==
    [][ \A t \in 1..Len(tasks) :
           TextRunsBesideAnother(t) =>
              LET u == tasks[t].user
                  old == LEAD_STATE[u]
                  fields == DATA.leads.fields
              IN  /\ old.step + 1 <= NumFields
                  /\ u \in DOMAIN LEAD_STATE' =>
                        /\ LEAD_STATE'[u].step = old.step + 1
                        /\ LEAD_STATE'[u].answers =
                              Put(old.answers, fields[old.step + 1].name,
                                  Strip(tasks[t].text))
                  /\ u \notin DOMAIN LEAD_STATE' =>
                        /\ old.step + 1 = NumFields
                        /\ leads_csv'.rows # <<>>
                        /\ leads_csv'.rows[Len(leads_csv'.rows)] =
                              LeadRow(u, Username(u),
                                      Put(old.answers, fields[old.step + 1].name,
                                          Strip(tasks[t].text)))
                  /\ run'[u].saved <= 1
      ]_vars

\* C15: while the coroutine of one user is inside the external call, the
\* event loop can go on to the coroutine created for another user's
\* message.  Fails: the call of line 67 is not awaited, so the event loop
\* is held until it returns.
C15_CallDoesNotStall ==
    \A t, k \in 1..Len(tasks) :
        (/\ tasks[t].pc = "calling"
         /\ tasks[k].pc = "created"
         /\ tasks[k].user # tasks[t].user)
        => ENABLED (task_switch
                    \/ \E llm \in LlmOutcomes, io \in IoOutcomes : task_run(k, llm, io))

=============================================================================
